---- MODULE Spec2Model ----
(***************************************************************************)
(* Model of deployadactyl's stop controller (state/stop/stopcontroller.go) *)
(* and of the push Action (Pusher).                                        *)
(*                                                                         *)
(* Strings are TLA+ strings, "" is Go's empty string and \o is Go's +.     *)
(* An error value is a tuple of strings, outermost wrapper first; the nil  *)
(* error is the empty tuple.  The response sink (a bytes.Buffer) is the    *)
(* string of its unread bytes.                                             *)
(***************************************************************************)
EXTENDS Integers, Sequences, FiniteSets, TLC

(***************************************************************************)
(* Bounds of the model.                                                    *)
(***************************************************************************)
\* longest list ErrorFinder.FindErrors returns
MaxMatches == 2

(***************************************************************************)
(* net/http status codes used by the controller.                           *)
(***************************************************************************)
StatusOK == 200
StatusUnauthorized == 401
StatusInternalServerError == 500

(***************************************************************************)
(* Error values.                                                           *)
(***************************************************************************)
NilError == <<>>

EnvironmentNotFoundError(env) == <<"EnvironmentNotFoundError", env>>

BasicAuthError == <<"BasicAuthError">>

InitializationError(err) == <<"InitializationError">> \o err

EventError(type, err) == <<"EventError", type>> \o err

\* err.Error(): the text of an error, wrappers joined outermost first
RECURSIVE ErrorString(_)
ErrorString(err) ==
    IF err = <<>> THEN ""
    ELSE IF Len(err) = 1 THEN Head(err)
    ELSE Head(err) \o ": " \o ErrorString(Tail(err))

(***************************************************************************)
(* The diagnostics an ErrorFinder can return (I.LogMatchedError): each has *)
(* a message, a list of details and a solution.                            *)
(***************************************************************************)
MatcherIds == {"quota", "route"}

LogMatchedError(id) == <<"LogMatchedError", id>>

ErrorMessage(e) == "matched " \o e[2]

Details(e) == <<"detail of " \o e[2]>>

Solution(e) == "fix " \o e[2]

RECURSIVE SeqsUpTo(_, _)
SeqsUpTo(S, n) ==
    IF n = 0 THEN {<<>>}
    ELSE SeqsUpTo(S, n - 1) \cup
         {Append(s, x) : s \in {t \in SeqsUpTo(S, n - 1) : Len(t) = n - 1}, x \in S}

\* what ErrorFinder.FindErrors may return for a transcript
FindErrorsResults == SeqsUpTo({LogMatchedError(id) : id \in MatcherIds}, MaxMatches)

(***************************************************************************)
(* Inputs of one StopDeployment call.                                      *)
(***************************************************************************)
\* config.Config handed to NewStopController
Configs ==
    [Username : {"admin"}, Password : {"secret"},
     Environments : {[dev |-> [Name |-> "dev", Authenticate |-> FALSE],
                      prod |-> [Name |-> "prod", Authenticate |-> TRUE]]}]

\* I.Deployment handed to StopDeployment
Deployments ==
    [CFContext : [Application : {"app"}, Environment : {"dev", "prod", "qa"}],
     Authorization : [Username : {"", "alice"}, Password : {"", "pw"}]]

ZeroEnvironment == [Name |-> "", Authenticate |-> FALSE]

ZeroAuthorization == [Username |-> "", Password |-> ""]

ZeroDeploymentInfo ==
    [AppName |-> "", Environment |-> "", Username |-> "", Password |-> ""]

ZeroDeployResponse == [StatusCode |-> 0, Error |-> NilError]

\* errors a subscriber or the Deployer may return
SubscriberError == <<"subscriber failed">>

DeployError == <<"StopError">>

\* what EventManager.EmitEvent does: every subscriber returns nil, a
\* subscriber returns an error, or a subscriber panics
EmitOutcomes == {"ok", "error", "panic"}

\* bytes a subscriber may write to the response sink
SubscriberWrites == {"", "subscriber output\n"}

\* bytes Deployer.Deploy may write to the response sink
DeployWrites == {"", "stopping app\n"}

\* responses Deployer.Deploy may return
DeployResponses == [StatusCode : {StatusOK, StatusInternalServerError},
                    Error : {NilError, DeployError}]

VARIABLES
    Config,          \* StopController.Config
    deployment,      \* the request
    pc,              \* position in StopDeployment
    environment,     \* local environment
    auth,            \* local auth
    deploymentInfo,  \* local deploymentInfo
    deployResponse,  \* the named result
    deferred,        \* stack of deferred calls, last registered last
    panicking,       \* a panic is unwinding the call
    response,        \* the response sink
    events,          \* events handed to EventManager.EmitEvent, in order
    calls,           \* calls made to StopManagerFactory, Deployer, ErrorFinder
    startedOutcome,  \* what EmitEvent(StopStartedEvent) did, "" before it
    startedErr,      \* error returned by EmitEvent(StopStartedEvent)
    deployReturned,  \* what Deployer.Deploy returned, if it returned
    printed          \* sink before and after each printErrors call

stopVars == <<Config, deployment, pc, environment, auth, deploymentInfo,
              deployResponse, deferred, panicking, response, events, calls,
              startedOutcome, startedErr, deployReturned, printed>>

VARIABLES
    pushers,         \* the Pusher of each foundation of the deployment
    phase,           \* lifecycle position of each Pusher
    courierCalls,    \* calls each Pusher made to its Courier, in order
    pusherResponse,  \* what each Pusher wrote to its Response
    pusherEvents,    \* events each Pusher handed to its EventManager
    results          \* what each phase call on each Pusher returned

pushVars == <<pushers, phase, courierCalls, pusherResponse, pusherEvents, results>>

vars == <<stopVars, pushVars>>

\* an event handed to EventManager.EmitEvent, with what its subscribers did
Event(name, err, outcome) ==
    [Name |-> name, Authorization |-> auth, Error |-> err, Outcome |-> outcome]

StopInit ==
    /\ Config \in Configs
    /\ deployment \in Deployments
    /\ pc = "resolveEnvironment"
    /\ environment = ZeroEnvironment
    /\ auth = ZeroAuthorization
    /\ deploymentInfo = ZeroDeploymentInfo
    /\ deployResponse = ZeroDeployResponse
    /\ deferred = <<>>
    /\ panicking = FALSE
    /\ response = ""
    /\ events = <<>>
    /\ calls = <<>>
    /\ startedOutcome = ""
    /\ startedErr = NilError
    /\ deployReturned = <<>>
    /\ printed = <<>>

\* no Pusher exists
NoPushers ==
    /\ pushers = <<>>
    /\ phase = <<>>
    /\ courierCalls = <<>>
    /\ pusherResponse = <<>>
    /\ pusherEvents = <<>>
    /\ results = <<>>

(***************************************************************************)
(* Helpers of the controller.                                              *)
(***************************************************************************)
\* fmt.Fprintln(response, a)
Fprintln(sink, a) == sink \o a \o "\n"

\* fmt.Fprint(response, a)
Fprint(sink, a) == sink \o a

\* resolveEnvironment without the !ok test
resolveEnvironment_IgnoreMissing(env) ==
    IF env \in DOMAIN Config.Environments
    THEN [environment |-> Config.Environments[env], err |-> NilError]
    ELSE [environment |-> ZeroEnvironment, err |-> NilError]

resolveEnvironment(env) ==
    IF env \in DOMAIN Config.Environments
    THEN [environment |-> Config.Environments[env], err |-> NilError]
    ELSE [environment |-> ZeroEnvironment, err |-> EnvironmentNotFoundError(env)]

\* resolveAuthorization testing username or password empty
resolveAuthorization_Or(a, envs) ==
    IF a.Username = "" \/ a.Password = ""
    THEN IF envs.Authenticate
         THEN [auth |-> ZeroAuthorization, err |-> BasicAuthError]
         ELSE [auth |-> [Username |-> Config.Username, Password |-> Config.Password],
               err |-> NilError]
    ELSE [auth |-> a, err |-> NilError]

resolveAuthorization(a, envs) ==
    IF a.Username = "" /\ a.Password = ""
    THEN IF envs.Authenticate
         THEN [auth |-> ZeroAuthorization, err |-> BasicAuthError]
         ELSE [auth |-> [Username |-> Config.Username, Password |-> Config.Password],
               err |-> NilError]
    ELSE [auth |-> a, err |-> NilError]

\* StopDeployment emitting StopFinished without defer, lost on early exit
RegisteredDefers_NoFinish == <<"emitStopSuccessOrFailure">>

\* StopDeployment with lines 75 and 76 exchanged
RegisteredDefers_Swapped == <<"emitStopSuccessOrFailure", "emitStopFinish">>

\* the deferred calls StopDeployment registers, in registration order
RegisteredDefers == <<"emitStopFinish", "emitStopSuccessOrFailure">>

\* the block printErrors writes for one classified error
ErrorBlock(e) ==
    "\n" \o "*******************\n" \o "\n"
    \o "The following error was found in the above logs: " \o ErrorMessage(e) \o "\n"
    \o "\n"
    \o "Error: " \o Details(e)[1] \o "\n"
    \o "\n"
    \o "Potential solution: " \o Solution(e) \o "\n"
    \o "\n" \o "*******************\n"

RECURSIVE ErrorBlocks(_)
ErrorBlocks(errors) ==
    IF errors = <<>> THEN ""
    ELSE ErrorBlock(Head(errors)) \o ErrorBlocks(Tail(errors))

\* tempBuffer.ReadFrom(response): the bytes read and what is left in the sink
ReadFrom(sink) == [read |-> sink, rest |-> ""]

\* printErrors without line 152
Rewritten_NotWrittenBack(sink) == ReadFrom(sink).rest

\* the sink after printErrors has read it and written it back
Rewritten(sink) == Fprint(ReadFrom(sink).rest, ReadFrom(sink).read)

\* printErrors surfacing the last match instead of the first
printErrors_LastMatch(sink, err, errors) ==
    [text |-> ReadFrom(sink).read,
     response |-> Rewritten(sink) \o ErrorBlocks(errors),
     err |-> IF Len(errors) > 0 THEN errors[Len(errors)] ELSE err]

\* printErrors(response, err) when FindErrors returns errors: the text handed
\* to FindErrors, the sink afterwards and the error left in *err
printErrors(sink, err, errors) ==
    [text |-> ReadFrom(sink).read,
     response |-> Rewritten(sink) \o ErrorBlocks(errors),
     err |-> IF Len(errors) > 0 THEN errors[1] ELSE err]

Call(fn, info, text) ==
    [fn |-> fn, info |-> info, text |-> text, at |-> Len(events)]

(***************************************************************************)
(* StopDeployment, one action per step.                                    *)
(***************************************************************************)
\* lines 45-52
ResolveEnvironment ==
    /\ pc = "resolveEnvironment"
    /\ LET r == resolveEnvironment(deployment.CFContext.Environment) IN
        IF r.err # NilError
        THEN /\ response' = Fprintln(response, ErrorString(r.err))
             /\ deployResponse' = [StatusCode |-> StatusInternalServerError,
                                   Error |-> r.err]
             /\ pc' = "returned"
             /\ UNCHANGED environment
        ELSE /\ environment' = r.environment
             /\ pc' = "resolveAuthorization"
             /\ UNCHANGED <<response, deployResponse>>
    /\ UNCHANGED <<Config, deployment, auth, deploymentInfo, deferred, panicking,
                   events, calls, startedOutcome, startedErr, deployReturned,
                   printed>>
    /\ UNCHANGED pushVars

\* lines 53-59
ResolveAuthorization ==
    /\ pc = "resolveAuthorization"
    /\ LET r == resolveAuthorization(deployment.Authorization, environment) IN
        IF r.err # NilError
        THEN /\ deployResponse' = [StatusCode |-> StatusUnauthorized, Error |-> r.err]
             /\ pc' = "returned"
             /\ UNCHANGED auth
        ELSE /\ auth' = r.auth
             /\ pc' = "prepare"
             /\ UNCHANGED deployResponse
    /\ UNCHANGED <<Config, deployment, environment, deploymentInfo, deferred,
                   panicking, response, events, calls, startedOutcome, startedErr,
                   deployReturned, printed>>
    /\ UNCHANGED pushVars

\* lines 61-76
Prepare ==
    /\ pc = "prepare"
    /\ deploymentInfo' = [AppName |-> deployment.CFContext.Application,
                          Environment |-> deployment.CFContext.Environment,
                          Username |-> auth.Username,
                          Password |-> auth.Password]
    /\ deferred' = deferred \o RegisteredDefers
    /\ pc' = "emitStarted"
    /\ UNCHANGED <<Config, deployment, environment, auth, deployResponse, panicking,
                   response, events, calls, startedOutcome, startedErr, deployReturned,
                   printed>>
    /\ UNCHANGED pushVars

\* the Started error typed as in the start controller
StartedEventError_WrongType(err) ==
    EventError("StartStartedEvent", InitializationError(err))

\* lines 88-91: the error StopDeployment returns for a failed Started event
StartedEventError(err) == EventError("StopStartedEvent", InitializationError(err))

\* StopDeployment without the return of line 89
AfterStarted_NoReturn(outcome) == IF outcome = "panic" THEN "unwind" ELSE "stopManager"

\* lines 86-94: where StopDeployment goes after emitting the Started event
AfterStarted(outcome) == IF outcome = "ok" THEN "stopManager" ELSE "unwind"

\* lines 78-94
EmitStopStarted ==
    /\ pc = "emitStarted"
    /\ \E outcome \in EmitOutcomes, w \in SubscriberWrites :
        /\ events' = Append(events, Event("StopStartedEvent", NilError, outcome))
        /\ response' = response \o w
        /\ startedOutcome' = outcome
        /\ pc' = AfterStarted(outcome)
        /\ panicking' = (outcome = "panic")
        /\ IF outcome = "error"
           THEN /\ startedErr' = SubscriberError
                /\ deployResponse' = [StatusCode |-> StatusInternalServerError,
                                      Error |-> StartedEventError(SubscriberError)]
           ELSE UNCHANGED <<startedErr, deployResponse>>
    /\ UNCHANGED <<Config, deployment, environment, auth, deploymentInfo, deferred,
                   calls, deployReturned, printed>>
    /\ UNCHANGED pushVars

\* line 98
StopManager ==
    /\ pc = "stopManager"
    /\ calls' = Append(calls, Call("StopManager", deploymentInfo, ""))
    /\ \E panics \in BOOLEAN :
        /\ panicking' = panics
        /\ pc' = IF panics THEN "unwind" ELSE "deploy"
    /\ UNCHANGED <<Config, deployment, environment, auth, deploymentInfo,
                   deployResponse, deferred, response, events, startedOutcome,
                   startedErr, deployReturned, printed>>
    /\ UNCHANGED pushVars

\* line 99
Deploy ==
    /\ pc = "deploy"
    /\ calls' = Append(calls, Call("Deploy", deploymentInfo, ""))
    /\ pc' = "unwind"
    /\ \E w \in DeployWrites :
        /\ response' = response \o w
        /\ \/ \E r \in DeployResponses :
                /\ deployResponse' = r
                /\ deployReturned' = <<r>>
                /\ UNCHANGED panicking
           \/ /\ panicking' = TRUE
              /\ UNCHANGED <<deployResponse, deployReturned>>
    /\ UNCHANGED <<Config, deployment, environment, auth, deploymentInfo, deferred,
                   events, startedOutcome, startedErr, printed>>
    /\ UNCHANGED pushVars

\* emitStopSuccessOrFailure without the Fprintln of line 145
AfterEmit_Silent(sink, outcome, w) == sink \o w

\* the sink after a deferred emission whose subscribers did `outcome`
AfterEmit(sink, outcome, w) ==
    IF outcome = "error" THEN Fprintln(sink \o w, ErrorString(SubscriberError))
    ELSE sink \o w

\* lines 116-147, run as a deferred call
emitStopSuccessOrFailure ==
    /\ pc = "unwind"
    /\ deferred # <<>>
    /\ deferred[Len(deferred)] = "emitStopSuccessOrFailure"
    /\ deferred' = SubSeq(deferred, 1, Len(deferred) - 1)
    /\ IF deployResponse.Error # NilError
       THEN /\ calls' = Append(calls, Call("FindErrors", ZeroDeploymentInfo,
                                           ReadFrom(response).read))
            /\ \/ \E errors \in FindErrorsResults, outcome \in EmitOutcomes,
                     w \in SubscriberWrites :
                    LET p == printErrors(response, deployResponse.Error, errors) IN
                    /\ printed' = Append(printed, [before |-> response,
                                                   errBefore |-> deployResponse.Error,
                                                   statusBefore |-> deployResponse.StatusCode,
                                                   errors |-> errors,
                                                   after |-> p.response])
                    /\ deployResponse' = [deployResponse EXCEPT !.Error = p.err]
                    /\ events' = Append(events, Event("StopFailureEvent", p.err,
                                                        outcome))
                    /\ response' = AfterEmit(p.response, outcome, w)
                    /\ panicking' = (panicking \/ outcome = "panic")
               \/ \* FindErrors panics
                  /\ response' = Rewritten(response)
                  /\ panicking' = TRUE
                  /\ UNCHANGED <<printed, deployResponse, events>>
       ELSE /\ \E outcome \in EmitOutcomes, w \in SubscriberWrites :
                /\ events' = Append(events, Event("StopSuccessEvent", NilError,
                                                outcome))
                /\ response' = AfterEmit(response, outcome, w)
                /\ panicking' = (panicking \/ outcome = "panic")
            /\ UNCHANGED <<calls, printed, deployResponse>>
    /\ UNCHANGED <<Config, deployment, pc, environment, auth, deploymentInfo,
                   startedOutcome, startedErr, deployReturned>>
    /\ UNCHANGED pushVars

\* lines 102-114, run as a deferred call
emitStopFinish ==
    /\ pc = "unwind"
    /\ deferred # <<>>
    /\ deferred[Len(deferred)] = "emitStopFinish"
    /\ deferred' = SubSeq(deferred, 1, Len(deferred) - 1)
    /\ \E outcome \in EmitOutcomes, w \in SubscriberWrites :
        /\ events' = Append(events, Event("StopFinishedEvent", NilError, outcome))
        /\ response' = response \o w
        /\ panicking' = (panicking \/ outcome = "panic")
    /\ UNCHANGED <<Config, deployment, pc, environment, auth, deploymentInfo,
                   deployResponse, calls, startedOutcome, startedErr, deployReturned,
                   printed>>
    /\ UNCHANGED pushVars

\* every deferred call has run: the result goes to the caller, or the panic does
Return ==
    /\ pc = "unwind"
    /\ deferred = <<>>
    /\ pc' = IF panicking THEN "panicked" ELSE "returned"
    /\ UNCHANGED <<Config, deployment, environment, auth, deploymentInfo,
                   deployResponse, deferred, panicking, response, events, calls,
                   startedOutcome, startedErr, deployReturned, printed>>
    /\ UNCHANGED pushVars

(***************************************************************************)
(* The push Action: Pusher.                                                *)
(*                                                                         *)
(* A Pusher has value receivers and no field of its own changes: what      *)
(* changes is behind its Courier, Response and EventManager.  A phase is   *)
(* computed on a memory [calls, response, events, in] that is threaded     *)
(* through the helpers it calls; `o` tells which of the external calls of  *)
(* the phase succeed and what Exists answers.                              *)
(***************************************************************************)
TemporaryNameSuffix == "-new-build-"

\* foundation URLs of the environment
Foundations == {"https://api.f1", "https://api.f2"}

\* S.DeploymentInfo every Pusher of a deployment is created with
PushDeploymentInfos ==
    [AppName : {"app"}, UUID : {"1f3a"}, Domain : {"", "example.com"}]

\* S.Environment every Pusher of a deployment is created with
PushEnvironments == [EnableRollback : BOOLEAN]

Pusher(url, info, env) ==
    [FoundationURL |-> url, DeploymentInfo |-> info, Environment |-> env,
     AppPath |-> "/tmp/app"]

\* bytes a Courier call returns
Output(op, ok) == op \o (IF ok THEN " ok\n" ELSE " failed\n")

\* errors of the state package and of event subscribers
LoginError(url, out) == <<"LoginError", url, out>>

PushError == <<"PushError">>

CloudFoundryGetLogsError == <<"CloudFoundryGetLogsError">>

MapRouteError(out) == <<"MapRouteError", out>>

UnmapRouteError(appName, out) == <<"UnmapRouteError", appName, out>>

DeleteApplicationError(appName, out) == <<"DeleteApplicationError", appName, out>>

RenameError(appName, out) == <<"RenameError", appName, out>>

\* the error a subscriber of the named (Emit) or typed (EmitEvent) event returns
PushFinishedSubscriberError(style) == <<"PushFinished subscriber failed", style>>

CleanUpError == <<"CleanUpError">>

\* a call to the Courier (Push's instance count is left out): `ok` is
\* whether it returned no error (for Exists, what it answered) and `out`
\* the bytes it returned
courier(m, op, args, ok, out) ==
    [m EXCEPT !.calls = Append(@, [op |-> op, args |-> args, in |-> m.in,
                                   ok |-> ok, out |-> out])]

\* p.Response.Write(bytes) and fmt.Fprintf(p.Response, ...): the response is
\* kept as the sequence of the non-empty writes made to it
write(m, bytes) ==
    IF bytes = "" THEN m ELSE [m EXCEPT !.response = Append(@, bytes)]

\* EventManager.Emit (named) and EventManager.EmitEvent (typed); `ok` is
\* whether every subscriber returned nil and `afterCalls` the number of
\* Courier calls made before the emission
emit(m, style, url, tempAppWithUUID, ok) ==
    [m EXCEPT !.events = Append(@, [style |-> style, Type |-> "PushFinishedEvent",
                                    FoundationURL |-> url,
                                    TempAppWithUUID |-> tempAppWithUUID,
                                    ok |-> ok, afterCalls |-> Len(m.calls)])]

Ok(m) == [m |-> m, err |-> NilError]

Failed(m, err) == [m |-> m, err |-> err]

\* lines 35-62
PusherInitially(p, m, o) ==
    LET output == Output("Login", o.Login)
        m1 == courier(m, "Login", <<p.FoundationURL>>, o.Login, output)
        m2 == write(m1, output)
    IN  IF ~o.Login THEN Failed(m2, LoginError(p.FoundationURL, output))
        ELSE Ok(m2)

\* lines 71-73
PusherVerify(p, m, o) == Ok(m)

\* pushApplication writing the logs before the output of Push
pushApplication_LogsFirst(p, m, o, appName, appPath) ==
    LET pushOutput == Output("Push", o.Push)
        m1 == courier(m, "Push", <<appName, appPath, p.DeploymentInfo.AppName>>,
                      o.Push, pushOutput)
    IN  IF ~o.Push
        THEN LET cloudFoundryLogs == Output("Logs", o.Logs)
                 m2 == courier(m1, "Logs", <<appName>>, o.Logs, cloudFoundryLogs)
                 m3 == write(write(m2, cloudFoundryLogs), pushOutput)
             IN  IF ~o.Logs THEN Failed(m3, CloudFoundryGetLogsError)
                 ELSE Failed(m3, PushError)
        ELSE Ok(write(write(m1, ""), pushOutput))

\* lines 191-221
pushApplication(p, m, o, appName, appPath) ==
    LET pushOutput == Output("Push", o.Push)
        m1 == courier(m, "Push", <<appName, appPath, p.DeploymentInfo.AppName>>,
                      o.Push, pushOutput)
    IN  IF ~o.Push
        THEN LET cloudFoundryLogs == Output("Logs", o.Logs)
                 m2 == courier(m1, "Logs", <<appName>>, o.Logs, cloudFoundryLogs)
                 m3 == write(write(m2, pushOutput), cloudFoundryLogs)
             IN  IF ~o.Logs THEN Failed(m3, CloudFoundryGetLogsError)
                 ELSE Failed(m3, PushError)
        ELSE Ok(write(write(m1, pushOutput), ""))

\* lines 223-237
mapTempAppToLoadBalancedDomain(p, m, o, appName) ==
    LET out == Output("MapRoute", o.MapRoute)
        m1 == courier(m, "MapRoute",
                      <<appName, p.DeploymentInfo.Domain, p.DeploymentInfo.AppName>>,
                      o.MapRoute, out)
    IN  IF ~o.MapRoute THEN Failed(m1, MapRouteError(out))
        ELSE Ok(write(m1, "application route created: " \o p.DeploymentInfo.AppName
                          \o "." \o p.DeploymentInfo.Domain))

\* Execute going on to the typed emission after the named one failed
PusherExecute_IgnoresEmitError(p, m, o) ==
    LET tempAppWithUUID ==
            p.DeploymentInfo.AppName \o TemporaryNameSuffix \o p.DeploymentInfo.UUID
        r1 == pushApplication(p, m, o, tempAppWithUUID, p.AppPath)
        r2 == IF p.DeploymentInfo.Domain # ""
              THEN mapTempAppToLoadBalancedDomain(p, r1.m, o, tempAppWithUUID)
              ELSE Ok(r1.m)
        m3 == emit(r2.m, "Emit", p.FoundationURL, tempAppWithUUID, o.Emit)
        m4 == emit(m3, "EmitEvent", p.FoundationURL, tempAppWithUUID, o.EmitEvent)
    IN  IF r1.err # NilError THEN r1
        ELSE IF r2.err # NilError THEN r2
        ELSE IF ~o.EmitEvent THEN Failed(m4, PushFinishedSubscriberError("EmitEvent"))
        ELSE IF ~o.Emit THEN Failed(m4, PushFinishedSubscriberError("Emit"))
        ELSE Ok(m4)

\* lines 75-129
PusherExecute(p, m, o) ==
    LET tempAppWithUUID ==
            p.DeploymentInfo.AppName \o TemporaryNameSuffix \o p.DeploymentInfo.UUID
        r1 == pushApplication(p, m, o, tempAppWithUUID, p.AppPath)
        r2 == IF p.DeploymentInfo.Domain # ""
              THEN mapTempAppToLoadBalancedDomain(p, r1.m, o, tempAppWithUUID)
              ELSE Ok(r1.m)
        m3 == emit(r2.m, "Emit", p.FoundationURL, tempAppWithUUID, o.Emit)
        m4 == emit(m3, "EmitEvent", p.FoundationURL, tempAppWithUUID, o.EmitEvent)
    IN  IF r1.err # NilError THEN r1
        ELSE IF r2.err # NilError THEN r2
        ELSE IF ~o.Emit THEN Failed(m3, PushFinishedSubscriberError("Emit"))
        ELSE IF ~o.EmitEvent THEN Failed(m4, PushFinishedSubscriberError("EmitEvent"))
        ELSE Ok(m4)

\* unMapLoadBalancedRoute without the check of the domain
unMapLoadBalancedRoute_AnyDomain(p, m, o) ==
    LET out == Output("UnmapRoute", o.UnmapRoute)
        m1 == courier(m, "UnmapRoute",
                      <<p.DeploymentInfo.AppName, p.DeploymentInfo.Domain,
                        p.DeploymentInfo.AppName>>, o.UnmapRoute, out)
    IN  IF ~o.UnmapRoute
        THEN Failed(m1, UnmapRouteError(p.DeploymentInfo.AppName, out))
        ELSE Ok(m1)

\* lines 239-253
unMapLoadBalancedRoute(p, m, o) ==
    IF p.DeploymentInfo.Domain # ""
    THEN LET out == Output("UnmapRoute", o.UnmapRoute)
             m1 == courier(m, "UnmapRoute",
                           <<p.DeploymentInfo.AppName, p.DeploymentInfo.Domain,
                             p.DeploymentInfo.AppName>>, o.UnmapRoute, out)
         IN  IF ~o.UnmapRoute
             THEN Failed(m1, UnmapRouteError(p.DeploymentInfo.AppName, out))
             ELSE Ok(m1)
    ELSE Ok(m)

\* lines 255-269
deleteApplication(p, m, o, appName) ==
    LET out == Output("Delete", o.Delete)
        m1 == courier(m, "Delete", <<appName>>, o.Delete, out)
    IN  IF ~o.Delete THEN Failed(m1, DeleteApplicationError(appName, out))
        ELSE Ok(m1)

\* renameNewBuildToOriginalAppName renaming appName + TemporaryNameSuffix
renameNewBuildToOriginalAppName_NoUUID(p, m, o) ==
    LET from == p.DeploymentInfo.AppName \o TemporaryNameSuffix
        out == Output("Rename", o.Rename)
        m1 == courier(m, "Rename", <<from, p.DeploymentInfo.AppName>>, o.Rename, out)
    IN  IF ~o.Rename THEN Failed(m1, RenameError(from, out))
        ELSE Ok(m1)

\* lines 271-283
renameNewBuildToOriginalAppName(p, m, o) ==
    LET from ==
            p.DeploymentInfo.AppName \o TemporaryNameSuffix \o p.DeploymentInfo.UUID
        out == Output("Rename", o.Rename)
        m1 == courier(m, "Rename", <<from, p.DeploymentInfo.AppName>>, o.Rename, out)
    IN  IF ~o.Rename THEN Failed(m1, RenameError(from, out))
        ELSE Ok(m1)

\* Success going on to Rename after Delete failed
PusherSuccess_IgnoresDeleteError(p, m, o) ==
    LET m1 == courier(m, "Exists", <<p.DeploymentInfo.AppName>>, o.Exists, "")
        r2 == unMapLoadBalancedRoute(p, m1, o)
        r3 == deleteApplication(p, r2.m, o, p.DeploymentInfo.AppName)
    IN  IF o.Exists
        THEN IF r2.err # NilError THEN r2
             ELSE renameNewBuildToOriginalAppName(p, r3.m, o)
        ELSE renameNewBuildToOriginalAppName(p, m1, o)

\* Success going on to Delete after UnmapRoute failed
PusherSuccess_IgnoresUnmapError(p, m, o) ==
    LET m1 == courier(m, "Exists", <<p.DeploymentInfo.AppName>>, o.Exists, "")
        r2 == unMapLoadBalancedRoute(p, m1, o)
        r3 == deleteApplication(p, r2.m, o, p.DeploymentInfo.AppName)
    IN  IF o.Exists
        THEN IF r3.err # NilError THEN r3
             ELSE renameNewBuildToOriginalAppName(p, r3.m, o)
        ELSE renameNewBuildToOriginalAppName(p, m1, o)

\* Success renaming over an existing application without deleting it
PusherSuccess_NoDelete(p, m, o) ==
    LET m1 == courier(m, "Exists", <<p.DeploymentInfo.AppName>>, o.Exists, "")
        r2 == unMapLoadBalancedRoute(p, m1, o)
    IN  IF o.Exists
        THEN IF r2.err # NilError THEN r2
             ELSE renameNewBuildToOriginalAppName(p, r2.m, o)
        ELSE renameNewBuildToOriginalAppName(p, m1, o)

\* lines 133-152
PusherSuccess(p, m, o) ==
    LET m1 == courier(m, "Exists", <<p.DeploymentInfo.AppName>>, o.Exists, "")
        r2 == unMapLoadBalancedRoute(p, m1, o)
        r3 == deleteApplication(p, r2.m, o, p.DeploymentInfo.AppName)
    IN  IF o.Exists
        THEN IF r2.err # NilError THEN r2
             ELSE IF r3.err # NilError THEN r3
             ELSE renameNewBuildToOriginalAppName(p, r3.m, o)
        ELSE renameNewBuildToOriginalAppName(p, m1, o)

\* Undo deleting the original application instead of the temporary one
PusherUndo_DeletesOriginal(p, m, o) ==
    LET m1 == courier(m, "Exists", <<p.DeploymentInfo.AppName>>, o.Exists, "")
    IN  IF ~p.Environment.EnableRollback
        THEN PusherSuccess(p, m, o)
        ELSE IF o.Exists
        THEN deleteApplication(p, m1, o, p.DeploymentInfo.AppName)
        ELSE renameNewBuildToOriginalAppName(p, m1, o)

\* Undo rolling back whatever Environment.EnableRollback says
PusherUndo_AlwaysRollback(p, m, o) ==
    LET tempAppWithUUID ==
            p.DeploymentInfo.AppName \o TemporaryNameSuffix \o p.DeploymentInfo.UUID
        m1 == courier(m, "Exists", <<p.DeploymentInfo.AppName>>, o.Exists, "")
    IN  IF o.Exists
        THEN deleteApplication(p, m1, o, tempAppWithUUID)
        ELSE renameNewBuildToOriginalAppName(p, m1, o)

\* lines 157-184
PusherUndo(p, m, o) ==
    LET tempAppWithUUID ==
            p.DeploymentInfo.AppName \o TemporaryNameSuffix \o p.DeploymentInfo.UUID
        m1 == courier(m, "Exists", <<p.DeploymentInfo.AppName>>, o.Exists, "")
    IN  IF ~p.Environment.EnableRollback
        THEN PusherSuccess(p, m, o)
        ELSE IF o.Exists
        THEN deleteApplication(p, m1, o, tempAppWithUUID)
        ELSE renameNewBuildToOriginalAppName(p, m1, o)

\* lines 187-189
PusherFinally(p, m, o) ==
    LET m1 == courier(m, "CleanUp", <<>>, o.CleanUp, "")
    IN  IF ~o.CleanUp THEN Failed(m1, CleanUpError) ELSE Ok(m1)

(***************************************************************************)
(* The phases as actions.  The caller takes each Pusher through            *)
(*   Verify, Initially, Execute, Success or Undo, Finally                  *)
(* and goes from a failed Initially straight to Finally.                   *)
(***************************************************************************)
\* the memory phase `name` of the Pusher of foundation f starts from
Memory(f, name) ==
    [calls |-> courierCalls[f], response |-> pusherResponse[f],
     events |-> pusherEvents[f], in |-> name]

\* the Pusher of foundation f returned r from phase `name`
Returns(f, name, r, next) ==
    /\ courierCalls' = [courierCalls EXCEPT ![f] = r.m.calls]
    /\ pusherResponse' = [pusherResponse EXCEPT ![f] = r.m.response]
    /\ pusherEvents' = [pusherEvents EXCEPT ![f] = r.m.events]
    /\ results' = [results EXCEPT ![f] = Append(@, [phase |-> name, err |-> r.err])]
    /\ phase' = [phase EXCEPT ![f] = next]
    /\ UNCHANGED <<pushers, stopVars>>

Verify(f) ==
    /\ phase[f] = "created"
    /\ Returns(f, "Verify", PusherVerify(pushers[f], Memory(f, "Verify"), <<>>),
               "verified")

Initially(f) ==
    /\ phase[f] = "verified"
    /\ \E o \in [Login : BOOLEAN] :
        LET r == PusherInitially(pushers[f], Memory(f, "Initially"), o) IN
        Returns(f, "Initially", r,
                IF r.err = NilError THEN "initialized" ELSE "finishing")

Execute(f) ==
    /\ phase[f] = "initialized"
    /\ \E o \in [Push : BOOLEAN, Logs : BOOLEAN, MapRoute : BOOLEAN,
                 Emit : BOOLEAN, EmitEvent : BOOLEAN] :
        Returns(f, "Execute", PusherExecute(pushers[f], Memory(f, "Execute"), o),
                "executed")

Success(f) ==
    /\ phase[f] = "executed"
    /\ \E o \in [Exists : BOOLEAN, UnmapRoute : BOOLEAN, Delete : BOOLEAN,
                 Rename : BOOLEAN] :
        Returns(f, "Success", PusherSuccess(pushers[f], Memory(f, "Success"), o),
                "finishing")

Undo(f) ==
    /\ phase[f] = "executed"
    /\ \E o \in [Exists : BOOLEAN, UnmapRoute : BOOLEAN, Delete : BOOLEAN,
                 Rename : BOOLEAN] :
        Returns(f, "Undo", PusherUndo(pushers[f], Memory(f, "Undo"), o),
                "finishing")

Finally(f) ==
    /\ phase[f] = "finishing"
    /\ \E o \in [CleanUp : BOOLEAN] :
        Returns(f, "Finally", PusherFinally(pushers[f], Memory(f, "Finally"), o),
                "done")

\* Pushers created for the foundations F of one deployment
PushersCreated(F) ==
    /\ \E info \in PushDeploymentInfos, env \in PushEnvironments :
          pushers = [f \in F |-> Pusher(f, info, env)]
    /\ phase = [f \in F |-> "created"]
    /\ courierCalls = [f \in F |-> <<>>]
    /\ pusherResponse = [f \in F |-> <<>>]
    /\ pusherEvents = [f \in F |-> <<>>]
    /\ results = [f \in F |-> <<>>]

\* no StopDeployment call is running
NoStopDeployment ==
    /\ Config = CHOOSE c \in Configs : TRUE
    /\ deployment = CHOOSE d \in Deployments : TRUE
    /\ pc = "idle"
    /\ environment = ZeroEnvironment
    /\ auth = ZeroAuthorization
    /\ deploymentInfo = ZeroDeploymentInfo
    /\ deployResponse = ZeroDeployResponse
    /\ deferred = <<>>
    /\ panicking = FALSE
    /\ response = ""
    /\ events = <<>>
    /\ calls = <<>>
    /\ startedOutcome = ""
    /\ startedErr = NilError
    /\ deployReturned = <<>>
    /\ printed = <<>>

(***************************************************************************)
(* Properties of StopDeployment.                                           *)
(***************************************************************************)
Done == pc \in {"returned", "panicked"}

Count(name) == Cardinality({i \in DOMAIN events : events[i].Name = name})

CallCount(fn) == Cardinality({i \in DOMAIN calls : calls[i].fn = fn})

EnvironmentKnown == deployment.CFContext.Environment \in DOMAIN Config.Environments

NoCredentials ==
    deployment.Authorization.Username = "" /\ deployment.Authorization.Password = ""

\* C1: a run that emits StopStarted emits exactly one StopStarted and exactly
\* one StopFinished, StopFinished after StopStarted, whether the run ends by
\* a Started subscriber error, by Deploy returning, or by Deploy panicking.
C1_StartedFinishedPaired ==
    /\ Count("StopStartedEvent") <= 1
    /\ Count("StopFinishedEvent") <= 1
    /\ \A i \in DOMAIN events :
          events[i].Name = "StopFinishedEvent" =>
             \E j \in 1..(i - 1) : events[j].Name = "StopStartedEvent"
    /\ (Done /\ Count("StopStartedEvent") = 1) => Count("StopFinishedEvent") = 1

\* a run in which Deploy panicked has ended with both envelope events
C1_Witness ==
    /\ pc = "panicked"
    /\ CallCount("Deploy") = 1
    /\ deployReturned = <<>>
    /\ Count("StopStartedEvent") = 1
    /\ Count("StopFinishedEvent") = 1

FindErrorsCompleted == Len(printed) = CallCount("FindErrors")

\* C2: StopFinished is the last envelope event of a run: no event follows
\* it, a finished run that emitted events ends with it, and the StopSuccess
\* or StopFailure of the run precedes it.
C2_FinishedLast ==
    /\ \A i \in DOMAIN events :
          events[i].Name = "StopFinishedEvent" =>
             /\ i = Len(events)
             /\ FindErrorsCompleted =>
                   \E j \in 1..(i - 1) :
                      events[j].Name \in {"StopSuccessEvent", "StopFailureEvent"}
    /\ (Done /\ events # <<>>) => events[Len(events)].Name = "StopFinishedEvent"

\* a failed run has emitted Started, Failure, Finished in that order
C2_Witness ==
    /\ pc = "returned"
    /\ Len(events) = 3
    /\ events[2].Name = "StopFailureEvent"
    /\ events[3].Name = "StopFinishedEvent"

\* C3: when the requested environment is not a key of Config.Environments the
\* call returns 500 with EnvironmentNotFound, emits no event, does not run the
\* error classifier and does not call StopManager or Deploy.
C3_EnvironmentNotFound ==
    ~EnvironmentKnown =>
       /\ events = <<>>
       /\ calls = <<>>
       /\ pc \in {"resolveEnvironment", "returned"}
       /\ pc = "returned" =>
             /\ deployResponse.StatusCode = StatusInternalServerError
             /\ deployResponse.Error =
                   EnvironmentNotFoundError(deployment.CFContext.Environment)

C3_Witness ==
    /\ ~EnvironmentKnown
    /\ pc = "returned"

\* the credentials every event and every DeploymentInfo of the run carries
CredentialsAre(a) ==
    /\ \A i \in DOMAIN events : events[i].Authorization = a
    /\ \A i \in DOMAIN calls :
          calls[i].fn \in {"StopManager", "Deploy"} =>
             /\ calls[i].info.Username = a.Username
             /\ calls[i].info.Password = a.Password
    /\ deploymentInfo # ZeroDeploymentInfo =>
          /\ deploymentInfo.Username = a.Username
          /\ deploymentInfo.Password = a.Password

\* C4: with no username and no password, an authenticating environment gives
\* 401 with BasicAuth and no event and no call, and a non-authenticating one
\* gives the Config credentials; with a username or a password the request's
\* credentials are used unchanged.
C4_Authorization ==
    EnvironmentKnown =>
       LET env == Config.Environments[deployment.CFContext.Environment] IN
       IF NoCredentials /\ env.Authenticate
       THEN /\ events = <<>>
            /\ calls = <<>>
            /\ pc \in {"resolveEnvironment", "resolveAuthorization", "returned"}
            /\ pc = "returned" =>
                  /\ deployResponse.StatusCode = StatusUnauthorized
                  /\ deployResponse.Error = BasicAuthError
       ELSE IF NoCredentials
       THEN CredentialsAre([Username |-> Config.Username,
                            Password |-> Config.Password])
       ELSE CredentialsAre(deployment.Authorization)

\* a request with only a username reached Deploy
C4_Witness ==
    /\ deployment.Authorization = [Username |-> "alice", Password |-> ""]
    /\ CallCount("Deploy") = 1
    /\ Count("StopFinishedEvent") = 1

\* C5 as stated: after a Started subscriber error the call returns 500 and an
\* InitializationError wrapping EventError{Type: "StopStartedEvent"}.
C5_AsStated ==
    (pc = "returned" /\ startedOutcome = "error") =>
       /\ deployResponse.StatusCode = StatusInternalServerError
       /\ deployResponse.Error =
             InitializationError(EventError("StopStartedEvent", startedErr))

\* C5: after a Started subscriber error the call returns 500 and the error
\* EventError{Type: "StopStartedEvent"} wrapping an InitializationError that
\* wraps the subscriber's error, unless the error classifier found a known
\* error, whose first match is returned instead.
C5_StartedSubscriberError ==
    (pc = "returned" /\ startedOutcome = "error") =>
       /\ deployResponse.StatusCode = StatusInternalServerError
       /\ Len(printed) = 1
       /\ printed[1].errBefore =
             EventError("StopStartedEvent", InitializationError(startedErr))
       /\ deployResponse.Error =
             IF printed[1].errors # <<>> THEN printed[1].errors[1]
             ELSE EventError("StopStartedEvent", InitializationError(startedErr))

C5_Witness ==
    /\ pc = "returned"
    /\ startedOutcome = "error"
    /\ startedErr = SubscriberError
    /\ deployResponse.Error =
          <<"EventError", "StopStartedEvent", "InitializationError">> \o SubscriberError

\* C6: StopManager and Deploy are each called at most once, StopManager
\* before Deploy, and only after the Started event was emitted and its
\* subscribers returned no error; never after a failed environment or
\* authorization resolution or a Started subscriber error.
C6_DeployOnlyAfterStarted ==
    /\ CallCount("StopManager") <= 1
    /\ CallCount("Deploy") <= 1
    /\ \A i \in DOMAIN calls :
          calls[i].fn \in {"StopManager", "Deploy"} =>
             /\ calls[i].at = 1
             /\ events[1].Name = "StopStartedEvent"
             /\ startedOutcome = "ok"
             /\ EnvironmentKnown
             /\ ~(NoCredentials /\ environment.Authenticate)
             /\ calls[i].fn = "Deploy" =>
                   \E j \in 1..(i - 1) : calls[j].fn = "StopManager"
    /\ startedOutcome \in {"error", "panic"} =>
          \A i \in DOMAIN calls : calls[i].fn = "FindErrors"

C6_Witness ==
    /\ pc = "returned"
    /\ CallCount("StopManager") = 1
    /\ CallCount("Deploy") = 1
    /\ startedOutcome = "ok"

PastAuthorization == deploymentInfo # ZeroDeploymentInfo

DeployReturnedSuccess ==
    /\ deployReturned # <<>>
    /\ deployReturned[1].Error = NilError

\* C7 as stated: a run that gets past authorization resolution emits exactly
\* one of StopSuccess and StopFailure; StopSuccess only when Deploy was called
\* and returned a response with a nil Error, StopFailure in every other run,
\* a Deploy that does not complete included.
C7_AsStated ==
    /\ Count("StopSuccessEvent") + Count("StopFailureEvent") <= 1
    /\ Count("StopSuccessEvent") = 1 => DeployReturnedSuccess
    /\ (Done /\ PastAuthorization /\ FindErrorsCompleted) =>
          /\ Count("StopSuccessEvent") + Count("StopFailureEvent") = 1
          /\ ~DeployReturnedSuccess => Count("StopFailureEvent") = 1

\* the error printErrors leaves in *err
Surfaced(p) == IF p.errors # <<>> THEN p.errors[1] ELSE p.errBefore

\* C8: on the failure path the classifier runs exactly once, on the
\* transcript, before StopFailure is emitted; the returned error and the
\* error of the StopFailure event are its first match, or the original error
\* when it matched nothing; the status code is not changed; the classifier
\* does not run on the success path.
C8_Classification ==
    /\ CallCount("FindErrors") <= 1
    /\ Count("StopSuccessEvent") >= 1 => CallCount("FindErrors") = 0
    /\ \A i \in DOMAIN events :
          events[i].Name = "StopFailureEvent" =>
             /\ CallCount("FindErrors") = 1
             /\ Len(printed) = 1
             /\ events[i].Error = Surfaced(printed[1])
             /\ \A j \in DOMAIN calls :
                   calls[j].fn = "FindErrors" =>
                      /\ calls[j].at = i - 1
                      /\ calls[j].text = printed[1].before
    /\ printed # <<>> =>
          /\ printed[1].errBefore # NilError
          /\ deployResponse.Error = Surfaced(printed[1])
          /\ deployResponse.StatusCode = printed[1].statusBefore
          /\ Count("StopFailureEvent") = 1

\* Deploy failed and the classifier matched two different known errors
C8_Witness ==
    /\ pc = "returned"
    /\ Len(printed) = 1
    /\ printed[1].errBefore = DeployError
    /\ Len(printed[1].errors) = 2
    /\ printed[1].errors[1] # printed[1].errors[2]
    /\ deployResponse.Error = printed[1].errors[1]
    /\ Count("StopFailureEvent") = 1

RECURSIVE BlocksInOrder(_, _)
BlocksInOrder(sink, errors) ==
    IF errors = <<>> THEN sink
    ELSE BlocksInOrder(sink \o ErrorBlock(Head(errors)), Tail(errors))

\* C9: after printErrors the sink holds the transcript it held before,
\* followed by one block per error FindErrors returned, in the order
\* returned; with no match the sink is unchanged.
C9_TranscriptPreserved ==
    \A i \in DOMAIN printed :
       /\ printed[i].after = BlocksInOrder(printed[i].before, printed[i].errors)
       /\ printed[i].errors = <<>> => printed[i].after = printed[i].before

\* printErrors ran on a non-empty transcript with two different matches
C9_Witness ==
    /\ Len(printed) = 1
    /\ printed[1].before # ""
    /\ Len(printed[1].errors) = 2
    /\ printed[1].errors[1] # printed[1].errors[2]

(***************************************************************************)
(* Properties of the Pusher.                                               *)
(***************************************************************************)
CallsOf(f, ops) == {i \in DOMAIN courierCalls[f] : courierCalls[f][i].op \in ops}

\* the Delete calls Undo makes when it rolls back
RollbackDeletes(f) ==
    {i \in CallsOf(f, {"Delete"}) :
        /\ courierCalls[f][i].in = "Undo"
        /\ pushers[f].Environment.EnableRollback}

\* the names the Pusher of foundation f used for the temporary application
TempNamesUsed(f) ==
    {courierCalls[f][i].args[1] :
        i \in CallsOf(f, {"Push", "MapRoute", "Logs", "Rename"}) \cup RollbackDeletes(f)}
    \cup {pusherEvents[f][i].TempAppWithUUID : i \in DOMAIN pusherEvents[f]}

\* C10: every Courier call and event a Pusher makes with a temporary
\* application name (Push, MapRoute, Logs, the source of Rename, the Delete of
\* a rollback, both PushFinished events) uses AppName + "-new-build-" + UUID,
\* in every phase and on every foundation of the deployment.
C10_TemporaryName ==
    /\ \A f \in DOMAIN pushers :
          TempNamesUsed(f) \subseteq
             {pushers[f].DeploymentInfo.AppName \o "-new-build-"
                \o pushers[f].DeploymentInfo.UUID}
    /\ \A f \in DOMAIN pushers, g \in DOMAIN pushers :
          Cardinality(TempNamesUsed(f) \cup TempNamesUsed(g)) <= 1

\* every foundation pushed, mapped and emitted both events; one rolled back
\* by Delete and another by Rename
C10_Witness ==
    /\ Cardinality(DOMAIN pushers) >= 2
    /\ \A f \in DOMAIN pushers :
          /\ CallsOf(f, {"Push"}) # {}
          /\ CallsOf(f, {"MapRoute"}) # {}
          /\ Len(pusherEvents[f]) = 2
    /\ \E f \in DOMAIN pushers, g \in DOMAIN pushers :
          /\ RollbackDeletes(f) # {}
          /\ CallsOf(g, {"Rename"}) # {}
          /\ CallsOf(g, {"Logs"}) = {}
    /\ \E f \in DOMAIN pushers : TempNamesUsed(f) = {"app-new-build-1f3a"}

\* the Courier calls of the Pusher of foundation f, as <<operation, arguments>>
Trace(f) ==
    [i \in DOMAIN courierCalls[f] |->
        <<courierCalls[f][i].op, courierCalls[f][i].args>>]

\* the phases called on the Pusher of foundation f, in order
PhasesRun(f) == [i \in DOMAIN results[f] |-> results[f][i].phase]

\* every phase called on the Pusher of foundation f returned nil
NoPhaseFailed(f) == \A i \in DOMAIN results[f] : results[f][i].err = NilError

\* Exists answered true in phase `name` of the Pusher of foundation f
Existed(f, name) ==
    \E i \in CallsOf(f, {"Exists"}) :
        courierCalls[f][i].in = name /\ courierCalls[f][i].ok

\* C11: a Pusher taken through Verify, Initially, Execute, Success, Finally
\* with every call and emission succeeding makes exactly the calls Login,
\* Push(temp), MapRoute(temp) if a domain is set, Exists(app), then if the
\* app exists UnmapRoute(app) if a domain is set and Delete(app), then
\* Rename(temp, app), then CleanUp.
C11_SuccessfulLifecycle ==
    \A f \in DOMAIN pushers :
       (/\ PhasesRun(f) = <<"Verify", "Initially", "Execute", "Success", "Finally">>
        /\ NoPhaseFailed(f)) =>
          LET app == pushers[f].DeploymentInfo.AppName
              dom == pushers[f].DeploymentInfo.Domain
              temp == app \o "-new-build-" \o pushers[f].DeploymentInfo.UUID
          IN  Trace(f) =
                 <<(<<"Login", <<f>>>>), (<<"Push", <<temp, pushers[f].AppPath, app>>>>)>>
                 \o (IF dom # "" THEN <<(<<"MapRoute", <<temp, dom, app>>>>)>> ELSE <<>>)
                 \o <<(<<"Exists", <<app>>>>)>>
                 \o (IF Existed(f, "Success")
                     THEN (IF dom # "" THEN <<(<<"UnmapRoute", <<app, dom, app>>>>)>>
                           ELSE <<>>)
                          \o <<(<<"Delete", <<app>>>>)>>
                     ELSE <<>>)
                 \o <<(<<"Rename", <<temp, app>>>>), (<<"CleanUp", <<>>>>)>>

\* a successful lifecycle over an existing application with a domain
C11_Witness ==
    \E f \in DOMAIN pushers :
       /\ PhasesRun(f) = <<"Verify", "Initially", "Execute", "Success", "Finally">>
       /\ NoPhaseFailed(f)
       /\ Existed(f, "Success")
       /\ pushers[f].DeploymentInfo.Domain # ""
       /\ Len(courierCalls[f]) = 8

\* the calls of operations ops the Pusher of foundation f made in phase `name`
CallsIn(f, name, ops) == {i \in CallsOf(f, ops) : courierCalls[f][i].in = name}

\* phase `name` of the Pusher of foundation f returned nil
Succeeded(f, name) ==
    \E i \in DOMAIN results[f] :
        results[f][i].phase = name /\ results[f][i].err = NilError

\* the phases of the Pusher of foundation f that ran the body of Success
SuccessCalls(f) ==
    {results[f][i].phase : i \in DOMAIN results[f]}
       \cap (IF pushers[f].Environment.EnableRollback
             THEN {"Success"} ELSE {"Success", "Undo"})

\* C12: with an empty domain a Pusher calls neither MapRoute nor UnmapRoute in
\* any phase; with a domain, an Execute that returns nil has called MapRoute
\* exactly once, and a Success in which Exists answered true has called
\* UnmapRoute exactly once.
C12_RoutesOnlyWithDomain ==
    \A f \in DOMAIN pushers :
       IF pushers[f].DeploymentInfo.Domain = ""
       THEN CallsOf(f, {"MapRoute", "UnmapRoute"}) = {}
       ELSE /\ Succeeded(f, "Execute") =>
                  Cardinality(CallsIn(f, "Execute", {"MapRoute"})) = 1
            /\ \A name \in SuccessCalls(f) :
                  Existed(f, name) =>
                     Cardinality(CallsIn(f, name, {"UnmapRoute"})) = 1

\* a Pusher with a domain mapped the route in Execute and unmapped the
\* existing application in Success
C12_Witness ==
    \E f \in DOMAIN pushers :
       /\ pushers[f].DeploymentInfo.Domain # ""
       /\ Succeeded(f, "Execute")
       /\ Existed(f, "Success")
       /\ Cardinality(CallsIn(f, "Execute", {"MapRoute"})) = 1
       /\ Cardinality(CallsIn(f, "Success", {"UnmapRoute"})) = 1

\* a sequence of Courier calls without the phase they were made in
Untagged(cs) ==
    [i \in DOMAIN cs |-> [op |-> cs[i].op, args |-> cs[i].args,
                          ok |-> cs[i].ok, out |-> cs[i].out]]

\* the name of the temporary application of the Pusher of foundation f
TempApp(f) ==
    pushers[f].DeploymentInfo.AppName \o "-new-build-"
       \o pushers[f].DeploymentInfo.UUID

\* Undo returns from the Pusher of foundation f
UndoReturns(f) ==
    /\ phase[f] = "executed"
    /\ Len(results'[f]) = Len(results[f]) + 1
    /\ results'[f][Len(results'[f])].phase = "Undo"

PhaseTrace(f, name) ==
    LET In(c) == c.in = name
        cs == SelectSeq(courierCalls[f], In)
    IN  [i \in DOMAIN cs |-> <<cs[i].op, cs[i].args>>]

\* phase `name` was called on the Pusher of foundation f
Ran(f, name) == \E i \in DOMAIN results[f] : results[f][i].phase = name

\* C14: with Environment.EnableRollback true, Undo calls Exists(original) and
\* then exactly one more Courier call: Delete(temporary) if the original
\* exists, Rename(temporary, original) if it does not; it calls no Delete,
\* UnmapRoute or Rename whose first argument is the original application.
C14_UndoWithRollback ==
    \A f \in DOMAIN pushers :
       (pushers[f].Environment.EnableRollback /\ Ran(f, "Undo")) =>
          LET app == pushers[f].DeploymentInfo.AppName IN
          /\ PhaseTrace(f, "Undo") =
                <<(<<"Exists", <<app>>>>),
                  (IF Existed(f, "Undo")
                   THEN <<"Delete", <<TempApp(f)>>>>
                   ELSE <<"Rename", <<TempApp(f), app>>>>)>>
          /\ \A i \in CallsIn(f, "Undo", {"Delete", "UnmapRoute", "Rename"}) :
                courierCalls[f][i].args[1] # app

\* a rollback over an existing original application deleted the temporary one
C14_Witness ==
    \E f \in DOMAIN pushers :
       /\ pushers[f].Environment.EnableRollback
       /\ Ran(f, "Undo")
       /\ Existed(f, "Undo")
       /\ \E i \in CallsIn(f, "Undo", {"Delete"}) :
             courierCalls[f][i].args = <<TempApp(f)>>

\* the outputs the Courier returned in the calls cs, in call order
RECURSIVE Outputs(_)
Outputs(cs) ==
    IF cs = <<>> THEN <<>>
    ELSE (IF Head(cs).out = "" THEN <<>> ELSE <<Head(cs).out>>) \o Outputs(Tail(cs))

\* bytes are an output of the Courier in some call of the Pusher of f
IsCourierOutput(f, bytes) ==
    \E i \in DOMAIN courierCalls[f] : courierCalls[f][i].out = bytes

\* C15 as stated: the output of every Login, Push, Logs, MapRoute,
\* UnmapRoute, Delete and Rename call is written to the response, on success
\* and on failure, in the order of the calls.
C15_AsStated ==
    \A f \in DOMAIN pushers :
       LET Returned(bytes) == IsCourierOutput(f, bytes)
       IN  SelectSeq(pusherResponse[f], Returned) = Outputs(courierCalls[f])

\* what the Pusher of foundation f writes to the response for the calls cs
RECURSIVE Written(_, _)
Written(f, cs) ==
    IF cs = <<>> THEN <<>>
    ELSE LET c == Head(cs) IN
         (IF c.op \in {"Login", "Push", "Logs"} THEN <<c.out>>
          ELSE IF c.op = "MapRoute" /\ c.ok
          THEN <<"application route created: "
                   \o pushers[f].DeploymentInfo.AppName \o "."
                   \o pushers[f].DeploymentInfo.Domain>>
          ELSE <<>>)
         \o Written(f, Tail(cs))

\* C15: the output of every Login, Push and Logs call is written to the
\* response, on success and on failure, in the order of the calls; the
\* output of MapRoute, UnmapRoute, Delete and Rename is not written: when
\* the call fails it is carried by the error the phase returns, and a
\* MapRoute that succeeds writes "application route created: app.domain".
C15_OutputsWritten ==
    \A f \in DOMAIN pushers :
       /\ pusherResponse[f] = Written(f, courierCalls[f])
       /\ \A i \in CallsOf(f, {"MapRoute", "UnmapRoute", "Delete", "Rename"}) :
             ~courierCalls[f][i].ok =>
                \E j \in DOMAIN results[f] :
                   /\ results[f][j].phase = courierCalls[f][i].in
                   /\ results[f][j].err # NilError
                   /\ results[f][j].err[Len(results[f][j].err)] = courierCalls[f][i].out

\* a route was mapped and a later Delete failed: the response holds the
\* outputs of Login and Push and the line of the mapped route, nothing of
\* MapRoute, UnmapRoute or Delete
C15_Witness ==
    \E f \in DOMAIN pushers :
       /\ CallsOf(f, {"MapRoute"}) # {}
       /\ \E i \in CallsOf(f, {"Delete"}) : ~courierCalls[f][i].ok
       /\ pusherResponse[f] =
             <<"Login ok\n", "Push ok\n", "application route created: app.example.com">>

\* the error phase `name` of the Pusher of foundation f returned
ErrorOf(f, name) ==
    LET i == CHOOSE i \in DOMAIN results[f] : results[f][i].phase = name
    IN  results[f][i].err

\* C16: Execute emits PushFinished as the named event (Emit) and then as the
\* typed event (EmitEvent), each at most once and only after a Push and, with
\* a domain, a MapRoute that succeeded; an Execute that returned nil emitted
\* both, each accepted by its subscribers; an emission refused by a
\* subscriber is the error Execute returns, and a refused named emission is
\* not followed by the typed one.
C16_PushFinishedEmissions ==
    \A f \in DOMAIN pushers :
       LET evs == pusherEvents[f]
           dom == pushers[f].DeploymentInfo.Domain
       IN  /\ Len(evs) <= 2
           /\ \A k \in DOMAIN evs :
                 /\ evs[k].style = (IF k = 1 THEN "Emit" ELSE "EmitEvent")
                 /\ evs[k].Type = "PushFinishedEvent"
                 /\ \E i \in CallsIn(f, "Execute", {"Push"}) :
                       courierCalls[f][i].ok /\ i <= evs[k].afterCalls
                 /\ dom # "" =>
                       \E i \in CallsIn(f, "Execute", {"MapRoute"}) :
                          courierCalls[f][i].ok /\ i <= evs[k].afterCalls
                 /\ \A i \in CallsIn(f, "Execute", {"Push", "Logs", "MapRoute"}) :
                       courierCalls[f][i].ok /\ i <= evs[k].afterCalls
                 /\ ~evs[k].ok =>
                       /\ k = Len(evs)
                       /\ Ran(f, "Execute")
                       /\ ErrorOf(f, "Execute") = <<"PushFinished subscriber failed",
                                                    evs[k].style>>
           /\ Succeeded(f, "Execute") =>
                 /\ Len(evs) = 2
                 /\ evs[1].ok /\ evs[2].ok
           /\ (Ran(f, "Execute") /\ ~Succeeded(f, "Execute")) =>
                 \/ evs = <<>>
                 \/ ~evs[Len(evs)].ok

\* a subscriber refused the named emission after Push and MapRoute succeeded
C16_Witness ==
    \E f \in DOMAIN pushers :
       /\ Len(pusherEvents[f]) = 1
       /\ ~pusherEvents[f][1].ok
       /\ pusherEvents[f][1].afterCalls = 3
       /\ Ran(f, "Execute")
       /\ ~Succeeded(f, "Execute")

\* the call i of the Pusher of foundation f is the last of its phase
LastOfPhase(f, i) ==
    \A j \in DOMAIN courierCalls[f] :
        courierCalls[f][j].in = courierCalls[f][i].in => j <= i

\* the error a phase returns when its call c fails
ErrorFor(c) ==
    CASE c.op = "Login" -> <<"LoginError", c.args[1], c.out>>
      [] c.op = "MapRoute" -> <<"MapRouteError", c.out>>
      [] c.op = "UnmapRoute" -> <<"UnmapRouteError", c.args[1], c.out>>
      [] c.op = "Delete" -> <<"DeleteApplicationError", c.args[1], c.out>>
      [] c.op = "Rename" -> <<"RenameError", c.args[1], c.out>>
      [] c.op = "CleanUp" -> <<"CleanUpError">>

\* C17: the first call that fails ends its phase and no call is made twice
\* in a phase.  A failed Login, MapRoute, UnmapRoute, Delete or Rename is the
\* last call of its phase and the phase returns that call's error; a failed
\* Push is followed by one Logs of the temporary application and nothing
\* else, and Execute returns PushError, or CloudFoundryGetLogsError if Logs
\* failed too; after a failed Push or MapRoute nothing is emitted.
C17_FirstFailureEndsPhase ==
    \A f \in DOMAIN pushers :
       /\ \A i \in DOMAIN courierCalls[f] :
             LET c == courierCalls[f][i] IN
             /\ Cardinality(CallsIn(f, c.in, {c.op})) = 1
             /\ (~c.ok /\ c.op \notin {"Exists", "Push", "Logs"}) =>
                   /\ LastOfPhase(f, i)
                   /\ ErrorOf(f, c.in) = ErrorFor(c)
             /\ (~c.ok /\ c.op = "Push") =>
                   /\ i + 1 \in DOMAIN courierCalls[f]
                   /\ courierCalls[f][i + 1].op = "Logs"
                   /\ courierCalls[f][i + 1].args = <<TempApp(f)>>
                   /\ courierCalls[f][i + 1].in = c.in
                   /\ LastOfPhase(f, i + 1)
                   /\ ErrorOf(f, c.in) =
                         (IF courierCalls[f][i + 1].ok
                          THEN <<"PushError">> ELSE <<"CloudFoundryGetLogsError">>)
             /\ c.op = "Logs" =>
                   /\ i > 1
                   /\ courierCalls[f][i - 1].op = "Push"
                   /\ ~courierCalls[f][i - 1].ok
             /\ (~c.ok /\ c.op \in {"Push", "MapRoute"}) => pusherEvents[f] = <<>>

\* UnmapRoute failed in Success: no Delete and no Rename followed
C17_Witness ==
    \E f \in DOMAIN pushers :
       /\ \E i \in CallsIn(f, "Success", {"UnmapRoute"}) : ~courierCalls[f][i].ok
       /\ CallsIn(f, "Success", {"Delete", "Rename"}) = {}
       /\ phase[f] = "done"

\* the event the step emits
Emitted == events'[Len(events')]

\* the step emits an event of one of `names` and a subscriber returns an error
SubscriberFails(names) ==
    /\ Len(events') = Len(events) + 1
    /\ Emitted.Name \in names
    /\ Emitted.Outcome = "error"

\* the sink a StopSuccess or StopFailure event is emitted with: the sink as
\* it is, or as printErrors left it
SinkAtEmission ==
    IF Emitted.Name = "StopFailureEvent" THEN printed'[Len(printed')].after
    ELSE response

\* a finished run emitted StopFinished right after every StopSuccess or
\* StopFailure whose subscriber returned an error
FinishedFollows ==
    pc = "returned" =>
       \A i \in DOMAIN events :
          (/\ events[i].Name \in {"StopSuccessEvent", "StopFailureEvent"}
           /\ events[i].Outcome = "error") =>
             /\ i + 1 \in DOMAIN events
             /\ events[i + 1].Name = "StopFinishedEvent"

\* C18: an error returned by a subscriber of StopSuccess, StopFailure or
\* StopFinished leaves the DeployResponse as it was when the event was
\* emitted, status code and Error, up to the return to the caller; the error
\* of a StopSuccess or StopFailure subscriber is appended to the response
\* sink as one line, and StopFinished is emitted afterwards.
C18_SubscriberErrorsOnlyInSink ==
    [][/\ SubscriberFails({"StopSuccessEvent", "StopFailureEvent",
                           "StopFinishedEvent"}) =>
             /\ deployResponse'.StatusCode = deployResponse.StatusCode
             /\ deployResponse'.Error =
                   (IF Emitted.Name = "StopFailureEvent" THEN Emitted.Error
                    ELSE deployResponse.Error)
       /\ SubscriberFails({"StopSuccessEvent", "StopFailureEvent"}) =>
             \E w \in SubscriberWrites :
                response' = SinkAtEmission \o w \o "subscriber failed" \o "\n"
       /\ (pc = "unwind" /\ events' = events) => deployResponse' = deployResponse
       /\ FinishedFollows']_vars

\* a run returned its classified error after the subscribers of StopFailure
\* and of StopFinished both returned errors
C18_Witness ==
    /\ pc = "returned"
    /\ Len(events) = 3
    /\ events[2].Name = "StopFailureEvent" /\ events[2].Outcome = "error"
    /\ events[3].Name = "StopFinishedEvent" /\ events[3].Outcome = "error"
    /\ deployResponse.Error # NilError
    /\ deployResponse.Error = events[2].Error

\* C19: every Rename is Rename(temporary, original) and is made only after,
\* in the same phase, Exists(original) answered false or Delete(original)
\* succeeded.
C19_RenameOnlyOntoFreeName ==
    \A f \in DOMAIN pushers :
       LET app == pushers[f].DeploymentInfo.AppName IN
       \A i \in CallsOf(f, {"Rename"}) :
          /\ courierCalls[f][i].args = <<TempApp(f), app>>
          /\ \E j \in 1..(i - 1) :
                /\ courierCalls[f][j].in = courierCalls[f][i].in
                /\ courierCalls[f][j].args = <<app>>
                /\ \/ courierCalls[f][j].op = "Exists" /\ ~courierCalls[f][j].ok
                   \/ courierCalls[f][j].op = "Delete" /\ courierCalls[f][j].ok

\* Success renamed the temporary application after deleting the original
C19_Witness ==
    \E f \in DOMAIN pushers :
       /\ Existed(f, "Success")
       /\ \E i \in CallsIn(f, "Success", {"Rename"}) :
             /\ courierCalls[f][i - 1].op = "Delete"
             /\ courierCalls[f][i - 1].ok

\* Push failed in the Execute of the Pusher of foundation f
PushFailed(f) ==
    \E i \in CallsIn(f, "Execute", {"Push"}) : ~courierCalls[f][i].ok

\* C20 as stated: a Pusher whose Execute failed at Push and on which Undo is
\* then called makes no Delete and no UnmapRoute call on the original
\* application, whatever Environment.EnableRollback is.
C20_AsStated ==
    \A f \in DOMAIN pushers :
       (PushFailed(f) /\ Ran(f, "Undo")) =>
          \A i \in CallsIn(f, "Undo", {"Delete", "UnmapRoute"}) :
             courierCalls[f][i].args[1] # pushers[f].DeploymentInfo.AppName

Init == StopInit /\ NoPushers

Next ==
    \/ ResolveEnvironment
    \/ ResolveAuthorization
    \/ Prepare
    \/ EmitStopStarted
    \/ StopManager
    \/ Deploy
    \/ emitStopSuccessOrFailure
    \/ emitStopFinish
    \/ Return

Spec == Init /\ [][Next]_vars

(***************************************************************************)
(* One Pusher, on either foundation.                                       *)
(***************************************************************************)
PusherInit ==
    /\ NoStopDeployment
    /\ \E f \in Foundations : PushersCreated({f})

PusherNext ==
    \/ \E f \in DOMAIN pushers : Verify(f)
    \/ \E f \in DOMAIN pushers : Initially(f)
    \/ \E f \in DOMAIN pushers : Execute(f)
    \/ \E f \in DOMAIN pushers : Success(f)
    \/ \E f \in DOMAIN pushers : Undo(f)
    \/ \E f \in DOMAIN pushers : Finally(f)

PusherSpec == PusherInit /\ [][PusherNext]_vars

(***************************************************************************)
(* The Pushers of all foundations of one deployment.                       *)
(***************************************************************************)
DeploymentInit ==
    /\ NoStopDeployment
    /\ PushersCreated(Foundations)

DeploymentNext ==
    \/ \E f \in DOMAIN pushers : Verify(f)
    \/ \E f \in DOMAIN pushers : Initially(f)
    \/ \E f \in DOMAIN pushers : Execute(f)
    \/ \E f \in DOMAIN pushers : Success(f)
    \/ \E f \in DOMAIN pushers : Undo(f)
    \/ \E f \in DOMAIN pushers : Finally(f)

DeploymentSpec == DeploymentInit /\ [][DeploymentNext]_vars
====
